---- MODULE Spec2Model ----
(***************************************************************************)
(* The Monte-Carlo tree search player of player-of-games, driven by the    *)
(* Adjudicator of the game crate over the tic-tac-toe game.                *)
(*                                                                         *)
(* One MonteCarloTreeSearchPlayer (its node store explored_states, its     *)
(* last_turn) plays against a RandomPlayer.  The game starts from one of   *)
(* the boards of StartBoards with player One to move, as                   *)
(* Adjudicator::new(game_state, ..) does.                                  *)
(***************************************************************************)
EXTENDS Integers, Sequences, FiniteSets, TLC

(***************************************************************************)
(* Bounds and program constants                                            *)
(***************************************************************************)
\* How many of the boards of StartBoards a game may start from.
NumStarts == 4

\* `for _ in 1..100`: the number of iterations of one choose_move call.
Iterations == 99

\* u8 arithmetic: local counters and the sums of the aggregates.
U8 == 256

(***************************************************************************)
(* game: PlayerEnum, Conclusion                                            *)
(***************************************************************************)
PlayerEnum == {"One", "Two"}

\* other that returns the same player.
OtherSame(p) == p

other(p) == IF p = "One" THEN "Two" ELSE "One"

\* Option<T> is a sequence of length 0 (None) or 1 (Some(x)).
None == << >>
Some(x) == << x >>
IsSome(o) == Len(o) = 1
Unwrap(o) == o[1]

Win(p) == [kind |-> "Win", player |-> p]
Draw == [kind |-> "Draw", player |-> "-"]

(***************************************************************************)
(* tic-tac-toe: the board is the 3x3 array in the order of indexed_iter    *)
(* (row-major): cell 3*x + y + 1 is state[[x, y]].                         *)
(***************************************************************************)
Cells == 1..9

\* impl From<PlayerEnum> for Piece
PieceOf(player) == IF player = "One" THEN "X" ELSE "O"

\* TicTacToe::count, a u8
count(b, piece) == Cardinality({k \in Cells : b[k] = piece})

Lines == { {1,2,3}, {4,5,6}, {7,8,9},
           {1,4,7}, {2,5,8}, {3,6,9},
           {1,5,9}, {3,5,7} }

does_piece_win(b, piece) == \E l \in Lines : \A k \in l : b[k] = piece

\* A Move is (coordinates, piece).
Move(k, piece) == [cell |-> k, piece |-> piece]
Moves == {Move(k, q) : k \in Cells, q \in {"X", "O"}}

\* TicTacToe::is_legal(..).is_ok()
is_legal(b, m, player) ==
    /\ ~(player = "One" /\ m.piece = "O")
    /\ ~(player = "Two" /\ m.piece = "X")
    /\ b[m.cell] = "_"
    /\ IF m.piece = "O"
         THEN count(b, "O") = (count(b, "X") - 1) % U8
         ELSE count(b, "O") = count(b, "X")

\* all_legal_moves as the sequence the iterator yields: the cells in the
\* order of indexed_iter, filtered by is_legal.
RECURSIVE LegalFrom(_, _, _)
LegalFrom(b, player, k) ==
    IF k > 9 THEN << >>
    ELSE LET m == Move(k, PieceOf(player))
             rest == LegalFrom(b, player, k + 1)
         IN  IF is_legal(b, m, player) THEN << m >> \o rest ELSE rest

all_legal_moves(b, player) == LegalFrom(b, player, 1)

\* TicTacToe::update after its is_legal check passed.
update(b, m) == [b EXCEPT ![m.cell] = m.piece]

\* try_conclude that never finds the game concluded.
TryConcludeNever(b, next_player) == None

\* TicTacToe::try_conclude: an Option<Conclusion>
try_conclude(b, next_player) ==
    IF does_piece_win(b, "X") THEN Some(Win("One"))
    ELSE IF does_piece_win(b, "O") THEN Some(Win("Two"))
    ELSE IF Len(all_legal_moves(b, next_player)) = 0 THEN Some(Draw)
    ELSE None

(***************************************************************************)
(* HashMap<K, V> is a function; its keys here are moves, or boards.        *)
(***************************************************************************)
EmptyMap == [k \in {} |-> k]

Insert(map, k, v) == [x \in DOMAIN map \cup {k} |-> IF x = k THEN v ELSE map[x]]

Remove(map, k) == [x \in DOMAIN map \ {k} |-> map[x]]

\* map.extend(more): the entries of more replace those of map.
Extend(map, more) ==
    [x \in DOMAIN map \cup DOMAIN more |-> IF x \in DOMAIN more THEN more[x] ELSE map[x]]

\* The order in which a map of moves is iterated: a sequence of its keys.
\* All the keys of one children or parents map name different cells.
RECURSIVE IterOrder(_)
IterOrder(keys) ==
    IF keys = {} THEN << >>
    ELSE LET k == CHOOSE x \in keys : \A y \in keys : x.cell <= y.cell
         IN  << k >> \o IterOrder(keys \ {k})

\* Iterator::sum over u8 values (wrapping, as a release build does).
RECURSIVE SumValues(_)
SumValues(map) ==
    IF DOMAIN map = {} THEN 0
    ELSE LET k == CHOOSE x \in DOMAIN map : TRUE
         IN  (map[k] + SumValues(Remove(map, k))) % U8

(***************************************************************************)
(* player-of-games: Node                                                   *)
(***************************************************************************)
\* NodeNew with the parent edge forgotten.
NodeNewNoParent(player, parent) ==
    [ player         |-> player,
      local_attempts |-> 0,
      local_wins     |-> 0,
      local_losses   |-> 0,
      children       |-> EmptyMap,
      parents        |-> EmptyMap ]

\* NodeNew storing the player who has just moved.
NodeNewOtherPlayer(player, parent) ==
    [ player         |-> other(player),
      local_attempts |-> 0,
      local_wins     |-> 0,
      local_losses   |-> 0,
      children       |-> EmptyMap,
      parents        |-> IF IsSome(parent)
                           THEN Insert(EmptyMap, Unwrap(parent).move, Unwrap(parent).state)
                           ELSE EmptyMap ]

\* NodeNew with a rollout counted that has not been made.
NodeNewCounted(player, parent) ==
    [ player         |-> player,
      local_attempts |-> 1,
      local_wins     |-> 0,
      local_losses   |-> 0,
      children       |-> EmptyMap,
      parents        |-> IF IsSome(parent)
                           THEN Insert(EmptyMap, Unwrap(parent).move, Unwrap(parent).state)
                           ELSE EmptyMap ]

\* Node::new(player, parent)
NodeNew(player, parent) ==
    [ player         |-> player,
      local_attempts |-> 0,
      local_wins     |-> 0,
      local_losses   |-> 0,
      children       |-> EmptyMap,
      parents        |-> IF IsSome(parent)
                           THEN Insert(EmptyMap, Unwrap(parent).move, Unwrap(parent).state)
                           ELSE EmptyMap ]

\* The three tree_* folds return the map, and whether a child was missing
\* from the cache (the expect("Dangling pointer") of the fold).
Walk(map, dangling) == [map |-> map, dangling |-> dangling]

\* Which local counter of a child the fold of tree_attempts, tree_wins and
\* tree_losses inserts, and which fold it recurses with.
LocalOf(node, what) ==
    CASE what = "attempts" -> node.local_attempts
      [] what = "wins"     -> node.local_losses
      [] what = "losses"   -> node.local_wins

\* NextWalk with no change of perspective.
NextWalkSame(what) == what

NextWalk(what) ==
    CASE what = "attempts" -> "attempts"
      [] what = "wins"     -> "losses"
      [] what = "losses"   -> "wins"

\* Node::tree_attempts, tree_wins, tree_losses: the fold over
\* self.children.values().
RECURSIVE tree_walk(_, _, _)
RECURSIVE FoldChildren(_, _, _, _, _)
FoldChildren(node, order, acc, what, cache) ==
    IF order = << >> THEN acc
    ELSE LET child == node.children[Head(order)]
         IN  IF child \notin DOMAIN cache
               THEN Walk(acc.map, TRUE)
               ELSE LET child_node == cache[child]
                        sub == tree_walk(child_node, NextWalk(what), cache)
                        map == Insert(Extend(acc.map, sub.map), child,
                                      LocalOf(child_node, what))
                    IN  FoldChildren(node, Tail(order),
                                     Walk(map, acc.dangling \/ sub.dangling), what, cache)

tree_walk(node, what, cache) ==
    FoldChildren(node, IterOrder(DOMAIN node.children), Walk(EmptyMap, FALSE), what, cache)

tree_attempts(node, cache) == tree_walk(node, "attempts", cache)
tree_wins(node, cache) == tree_walk(node, "wins", cache)
tree_losses(node, cache) == tree_walk(node, "losses", cache)

\* attempts as the sum of the children's totals, with no map to merge the
\* positions reached twice.
RECURSIVE AttemptsPerPath(_, _)
AttemptsPerPath(node, cache) ==
    SumValues([m \in DOMAIN node.children |->
                  (cache[node.children[m]].local_attempts
                     + AttemptsPerPath(cache[node.children[m]], cache)) % U8])

\* Node::attempts, wins, losses
attempts(node, cache) == SumValues(tree_attempts(node, cache).map)
wins(node, cache) == SumValues(tree_wins(node, cache).map)
losses(node, cache) == SumValues(tree_losses(node, cache).map)

\* Whether a fold made from node meets a position missing from the cache.
Dangles(node, cache) == tree_attempts(node, cache).dangling

\* is_leaf that takes no node for a leaf.
IsLeafNever(node) == FALSE

\* Node::is_leaf
is_leaf(node) == DOMAIN node.children = {}

(***************************************************************************)
(* Node::uct_value and Node::choose_move_by_uct_value.                     *)
(*                                                                         *)
(* The exploration constant c is one of two f64 values for which the       *)
(* comparison of two scores is decided exactly by integer arithmetic:      *)
(*   "0.0"   : the score is wins/attempts;                                 *)
(*   "1e300" : for parent_attempts >= 2 the exploration term               *)
(*             c * sqrt(ln(parent_attempts)/attempts) is at least 1e298    *)
(*             and absorbs the exploitation term (at most 1) in the f64    *)
(*             sum, so the score decreases strictly with attempts and does *)
(*             not depend on wins; for parent_attempts = 1, ln is 0 and    *)
(*             the score is wins/attempts.                                 *)
(* A score is a record: f64::MAX, NaN, or a finite value given by the      *)
(* numbers it is computed from.                                            *)
(***************************************************************************)
ExplorationConstants == {"0.0", "1e300"}

F64Max == [kind |-> "max", c |-> "-", w |-> 0, a |-> 0, n |-> 0]
F64NaN == [kind |-> "nan", c |-> "-", w |-> 0, a |-> 0, n |-> 0]
Finite(c, w, a, n) == [kind |-> "fin", c |-> c, w |-> w, a |-> a, n |-> n]

\* Node::uct_value
uct_value(node, parent_attempts, c, cache) ==
    LET a == attempts(node, cache)
    IN  IF a = 0 THEN F64Max
        \* ln(0) is -inf, its square root is NaN, and c * NaN is NaN
        ELSE IF parent_attempts = 0 THEN F64NaN
        ELSE Finite(c, wins(node, cache), a, parent_attempts)

\* x <= y for two scores that are not NaN (OrdF64::cmp)
ScoreLeq(x, y) ==
    IF y.kind = "max" THEN TRUE
    ELSE IF x.kind = "max" THEN FALSE
    ELSE IF x.c = "1e300" /\ x.n >= 2
           THEN x.a >= y.a
           ELSE x.w * y.a <= y.w * x.a

\* MaxByKey returning the first of several maximal elements.
RECURSIVE MaxByKeyFirst(_, _)
MaxByKeyFirst(scored, best) ==
    IF scored = << >> THEN best
    ELSE MaxByKeyFirst(Tail(scored),
                       IF ScoreLeq(Head(scored).score, best.score) THEN best ELSE Head(scored))

\* Iterator::max_by_key over a sequence of (move, score): of several
\* maximal elements the last one is returned.
RECURSIVE MaxByKey(_, _)
MaxByKey(scored, best) ==
    IF scored = << >> THEN best
    ELSE MaxByKey(Tail(scored),
                  IF ScoreLeq(best.score, Head(scored).score) THEN Head(scored) ELSE best)

\* The (move, score) pair of one legal move.
ScoreOfMove(node, game_move, parent_attempts, c, cache) ==
    IF game_move \in DOMAIN node.children
      THEN [move |-> game_move,
            score |-> uct_value(cache[node.children[game_move]], parent_attempts, c, cache)]
      ELSE [move |-> game_move, score |-> F64Max]

\* choose_move_by_uct_value finding no move to choose.
ChooseNoMove(node, c, game, cache) == [panic |-> "", move |-> None]

\* Node::choose_move_by_uct_value: the Option<Move> it returns, or the
\* panic it ends with.
choose_move_by_uct_value(node, c, game, cache) ==
    IF Dangles(node, cache) THEN [panic |-> "Dangling pointer", move |-> None]
    ELSE LET parent_attempts == attempts(node, cache)
             legal == all_legal_moves(game, node.player)
             scored == [i \in 1..Len(legal) |->
                           ScoreOfMove(node, legal[i], parent_attempts, c, cache)]
         IN  IF \E i \in 1..Len(scored) : scored[i].score.kind = "nan"
               THEN [panic |-> "x is NAN", move |-> None]
             ELSE IF scored = << >>
               THEN [panic |-> "", move |-> None]
               ELSE [panic |-> "", move |-> Some(MaxByKey(Tail(scored), Head(scored)).move)]

(***************************************************************************)
(* player-of-games: MonteCarloTreeSearchPlayer.  The operations on the     *)
(* store return the store they leave and the panic they end with ("" when  *)
(* they return normally).                                                  *)
(***************************************************************************)
Ret(store, panic) == [store |-> store, panic |-> panic]

\* `for (m, parent) in node.parents.iter()`: remove the node as child m of
\* each of its parents.
RECURSIVE DetachFromParents(_, _, _)
DetachFromParents(r, node, order) ==
    IF order = << >> \/ r.panic # "" THEN r
    ELSE LET m == Head(order)
             parent == node.parents[m]
         IN  IF parent \notin DOMAIN r.store
               THEN Ret(r.store, "Dangling pointer")
               ELSE DetachFromParents(
                      Ret([r.store EXCEPT ![parent].children = Remove(@, m)], ""),
                      node, Tail(order))

\* DetachFromChildren with the loop left out: the children keep the edge.
DetachFromChildrenSkipped(r, node, order) == r

\* `for (m, child) in node.children.iter()`: remove the node as parent m of
\* each of its children.
RECURSIVE DetachFromChildren(_, _, _)
DetachFromChildren(r, node, order) ==
    IF order = << >> \/ r.panic # "" THEN r
    ELSE LET m == Head(order)
             child == node.children[m]
         IN  IF child \notin DOMAIN r.store
               THEN Ret(r.store, "Dangling pointer")
               ELSE DetachFromChildren(
                      Ret([r.store EXCEPT ![child].parents = Remove(@, m)], ""),
                      node, Tail(order))

\* The store without the node of game_state, and without the edges to it.
Detach(store, game_state) ==
    LET node == store[game_state]
        removed == [g \in DOMAIN store \ {game_state} |-> store[g]]
        r1 == DetachFromParents(Ret(removed, ""), node, IterOrder(DOMAIN node.parents))
    IN  DetachFromChildren(r1, node, IterOrder(DOMAIN node.children))

\* MonteCarloTreeSearchPlayer::remove_tree
RECURSIVE remove_tree(_, _)
RECURSIVE RemoveOrphans(_, _, _)
\* RemoveOrphans removing every child, orphan or not.
RECURSIVE RemoveOrphansAll(_, _, _)
RemoveOrphansAll(r, node, order) ==
    IF order = << >> \/ r.panic # "" THEN r
    ELSE LET child == node.children[Head(order)]
         IN  IF child \notin DOMAIN r.store
               THEN Ret(r.store, "Dangling pointer")
               ELSE RemoveOrphansAll(remove_tree(r.store, child), node, Tail(order))

RemoveOrphans(r, node, order) ==
    IF order = << >> \/ r.panic # "" THEN r
    ELSE LET child == node.children[Head(order)]
         IN  IF child \notin DOMAIN r.store
               THEN Ret(r.store, "Dangling pointer")
               ELSE IF DOMAIN r.store[child].parents = {}
                 THEN RemoveOrphans(remove_tree(r.store, child), node, Tail(order))
                 ELSE RemoveOrphans(r, node, Tail(order))

remove_tree(store, game_state) ==
    IF game_state \notin DOMAIN store THEN Ret(store, "")
    ELSE LET node == store[game_state]
         IN  RemoveOrphans(Detach(store, game_state), node, IterOrder(DOMAIN node.children))

\* pruning that looks the node of current_state up and leaves it in the
\* store.
PruningKeepsNode(store, current_state, game_move) ==
    IF ~IsSome(current_state) THEN Ret(store, "")
    ELSE IF Unwrap(current_state) \notin DOMAIN store THEN Ret(store, "")
    ELSE LET current_node == store[Unwrap(current_state)]
             r == Detach(store, Unwrap(current_state))
             kept == Ret(Insert(r.store, Unwrap(current_state), current_node), r.panic)
         IN  RemoveOrphans(kept, current_node,
                           IterOrder(DOMAIN current_node.children \ {game_move}))

\* MonteCarloTreeSearchPlayer::pruning
pruning(store, current_state, game_move) ==
    IF ~IsSome(current_state) THEN Ret(store, "")
    ELSE IF Unwrap(current_state) \notin DOMAIN store THEN Ret(store, "")
    ELSE LET current_node == store[Unwrap(current_state)]
         IN  RemoveOrphans(Detach(store, Unwrap(current_state)), current_node,
                           IterOrder(DOMAIN current_node.children \ {game_move}))

\* MonteCarloTreeSearchPlayer::selection_and_expansion.  It returns the
\* store, the state it returns and the panic it ends with, and the passes
\* of its loop: for each, current_parent and current_state, the store after
\* the first half of the body, and the move chosen (None when the pass
\* returned).
Sel(store, state, panic, passes) ==
    [store |-> store, state |-> state, panic |-> panic, passes |-> passes]

Pass(current_parent, current_state, store, chosen) ==
    [parent |-> current_parent, state |-> current_state, store |-> store, chosen |-> chosen]

\* Expand with the parent edge of a node that exists already forgotten.
ExpandNoMerge(store, current_parent, current_state, current_player) ==
    LET s1 == IF current_state \notin DOMAIN store
                THEN Insert(store, current_state, NodeNew(current_player, current_parent))
                ELSE store
    IN  IF IsSome(current_parent)
          THEN [s1 EXCEPT ![Unwrap(current_parent).state].children =
                   Insert(@, Unwrap(current_parent).move, current_state)]
          ELSE s1

\* The first half of the loop body: the node of current_state and the edge
\* from current_parent.
Expand(store, current_parent, current_state, current_player) ==
    LET s1 == IF current_state \notin DOMAIN store
                THEN Insert(store, current_state, NodeNew(current_player, current_parent))
                ELSE IF IsSome(current_parent)
                  THEN [store EXCEPT ![current_state].parents =
                           Insert(@, Unwrap(current_parent).move, Unwrap(current_parent).state)]
                  ELSE store
    IN  IF IsSome(current_parent)
          THEN [s1 EXCEPT ![Unwrap(current_parent).state].children =
                   Insert(@, Unwrap(current_parent).move, current_state)]
          ELSE s1

\* The loop, from the current_parent, current_state and current_player of
\* one pass.
RECURSIVE Descend(_, _, _, _, _, _)
Descend(store, current_parent, current_state, current_player, c, passes) ==
    LET s == Expand(store, current_parent, current_state, current_player)
        current_node == s[current_state]
        returned == Append(passes, Pass(current_parent, current_state, s, None))
    IN  IF is_leaf(current_node) /\ current_node.local_attempts = 0
          THEN Sel(s, current_state, "", returned)
          ELSE LET chosen == choose_move_by_uct_value(current_node, c, current_state, s)
               IN  IF chosen.panic # "" THEN Sel(s, current_state, chosen.panic, returned)
                   ELSE IF ~IsSome(chosen.move) THEN Sel(s, current_state, "", returned)
                   ELSE LET chosen_move == Unwrap(chosen.move)
                        IN  IF ~is_legal(current_state, chosen_move, current_player)
                              THEN Sel(s, current_state, "Move not legal", returned)
                              ELSE Descend(s,
                                           Some([move |-> chosen_move, state |-> current_state]),
                                           update(current_state, chosen_move),
                                           other(current_player), c,
                                           Append(passes, Pass(current_parent, current_state,
                                                               s, chosen.move)))

selection_and_expansion(store, game, self_player, c) ==
    Descend(store, None, game, self_player, c, << >>)

(***************************************************************************)
(* The state: the MonteCarloTreeSearchPlayer, the Adjudicator that drives  *)
(* it, and the position of choose_move in its loop.                        *)
(***************************************************************************)
VARIABLES
    explored_states,   \* MonteCarloTreeSearchPlayer.explored_states
    last_turn,         \* MonteCarloTreeSearchPlayer.last_turn
    player,            \* MonteCarloTreeSearchPlayer.player
    c,                 \* MonteCarloTreeSearchPlayer.c
    current_turn,      \* Adjudicator.current_turn
    game_state,        \* Adjudicator.game_state
    conclusion,        \* Adjudicator.conclusion
    chosen_move,       \* progress_one_turn: the move just played
    pc,                \* "choose", "rollout", "inform", "done", "panic"
    i,                 \* choose_move: the iterations completed
    state_to_explore,  \* choose_move: what selection_and_expansion returned
    state,             \* choose_move: the state of the rollout
    random_player,     \* choose_move: the player of the rollout's RandomPlayer
    panic,             \* the message of the panic that ended the program
    recorded           \* history: the rollouts this player has recorded

vars == << explored_states, last_turn, player, c, current_turn, game_state,
           conclusion, chosen_move, pc, i, state_to_explore, state,
           random_player, panic, recorded >>

mcts == << explored_states, last_turn, player, c >>
adjudicator == << current_turn, game_state, conclusion, chosen_move >>
locals == << i, state_to_explore, state, random_player >>

\* The boards a game may start from (Adjudicator::new takes any game_state,
\* with player One to move and no conclusion), none with a complete line:
\* boards with three cells empty, a board with no cell empty, and a board
\* with one cell empty, where X wins by its only move.
StartBoards ==
    << << "X", "O", "X",
          "X", "O", "O",
          "_", "_", "_" >>,
       << "_", "X", "O",
          "O", "_", "X",
          "X", "O", "_" >>,
       << "X", "O", "X",
          "X", "O", "O",
          "O", "X", "X" >>,
       << "X", "O", "X",
          "O", "X", "O",
          "O", "X", "_" >>,
       << "X", "X", "O",
          "O", "O", "X",
          "_", "_", "_" >>,
       << "X", "O", "X",
          "O", "X", "O",
          "_", "_", "_" >> >>

Min(a, b) == IF a <= b THEN a ELSE b

Init ==
    /\ explored_states = EmptyMap
    /\ last_turn = None
    /\ player \in PlayerEnum
    /\ c \in ExplorationConstants
    /\ current_turn = "One"
    /\ game_state \in {StartBoards[k] : k \in 1..Min(NumStarts, Len(StartBoards))}
    /\ conclusion = None
    /\ chosen_move = None
    /\ pc = "choose"
    /\ i = 0
    /\ state_to_explore = None
    /\ state = None
    /\ random_player = "One"
    /\ panic = ""
    /\ recorded = 0

\* The program ends with a panic.
Panic(message) ==
    /\ panic' = message
    /\ pc' = "panic"
    /\ UNCHANGED << mcts, adjudicator, locals, recorded >>

\* choose_move, one iteration, first half: selection_and_expansion, and the
\* lookup of the state it returned.
SelectionAndExpansion ==
    /\ pc = "choose" /\ current_turn = player /\ i < Iterations
    /\ LET r == selection_and_expansion(explored_states, game_state, player, c)
       IN  IF r.panic # "" THEN Panic(r.panic)
           ELSE IF r.state \notin DOMAIN r.store THEN Panic("Dangling pointer!")
           ELSE /\ explored_states' = r.store
                /\ state_to_explore' = Some(r.state)
                /\ state' = Some(r.state)
                /\ random_player' = r.store[r.state].player
                /\ pc' = "rollout"
                /\ UNCHANGED << last_turn, player, c, adjudicator, i, panic, recorded >>

\* The rollout: one turn of the RandomPlayer.
RolloutStep ==
    /\ pc = "rollout"
    /\ try_conclude(Unwrap(state), random_player) = None
    /\ LET legal == all_legal_moves(Unwrap(state), random_player)
       IN  IF legal = << >> THEN Panic("There were no legal moves")
           ELSE \E k \in 1..Len(legal) :
                   /\ state' = Some(update(Unwrap(state), legal[k]))
                   /\ random_player' = other(random_player)
                   /\ UNCHANGED << mcts, adjudicator, pc, i, state_to_explore, panic, recorded >>

\* Record counting a draw as a loss.
RecordDrawAsLoss(node, concl) ==
    IF concl.kind = "Win" /\ concl.player = node.player
      THEN [node EXCEPT !.local_wins = (@ + 1) % U8, !.local_attempts = (@ + 1) % U8]
      ELSE [node EXCEPT !.local_losses = (@ + 1) % U8, !.local_attempts = (@ + 1) % U8]

\* Record counting a win of the node's player as a loss.
RecordWinAsLoss(node, concl) ==
    IF concl.kind = "Win"
      THEN [node EXCEPT !.local_losses = (@ + 1) % U8, !.local_attempts = (@ + 1) % U8]
      ELSE [node EXCEPT !.local_attempts = (@ + 1) % U8]

\* Record counting the rollout twice in local_attempts.
RecordCountsTwice(node, concl) ==
    IF concl.kind = "Win" /\ concl.player = node.player
      THEN [node EXCEPT !.local_wins = (@ + 1) % U8, !.local_attempts = (@ + 2) % U8]
    ELSE IF concl.kind = "Win"
      THEN [node EXCEPT !.local_losses = (@ + 1) % U8, !.local_attempts = (@ + 2) % U8]
      ELSE [node EXCEPT !.local_attempts = (@ + 2) % U8]

\* The node of the rollout with the conclusion recorded in its counters.
Record(node, concl) ==
    IF concl.kind = "Win" /\ concl.player = node.player
      THEN [node EXCEPT !.local_wins = (@ + 1) % U8, !.local_attempts = (@ + 1) % U8]
    ELSE IF concl.kind = "Win"
      THEN [node EXCEPT !.local_losses = (@ + 1) % U8, !.local_attempts = (@ + 1) % U8]
      ELSE [node EXCEPT !.local_attempts = (@ + 1) % U8]

\* The rollout has reached a conclusion: it is recorded in the node of
\* state_to_explore and the iteration ends.
RolloutRecord ==
    /\ pc = "rollout"
    /\ try_conclude(Unwrap(state), random_player) # None
    /\ explored_states' = [explored_states EXCEPT ![Unwrap(state_to_explore)] =
                              Record(@, Unwrap(try_conclude(Unwrap(state), random_player)))]
    /\ i' = i + 1
    /\ state_to_explore' = None
    /\ state' = None
    /\ random_player' = "One"
    /\ pc' = "choose"
    /\ UNCHANGED << last_turn, player, c, adjudicator, panic >>
    /\ recorded' = recorded + 1

\* The orders in which a HashMap with these keys may be iterated: all of
\* them (the order of HashMap::iter is unspecified).
Enumerations(keys) ==
    {order \in [1..Cardinality(keys) -> keys] :
        \A a, b \in 1..Cardinality(keys) : a # b => order[a] # order[b]}

\* Iterator::max_by_key over (move, attempts) pairs keyed by the u8
\* attempts: of several maximal elements the last one is returned.
RECURSIVE MaxByAttempts(_, _)
MaxByAttempts(counted, best) ==
    IF counted = << >> THEN best
    ELSE MaxByAttempts(Tail(counted),
                       IF best.x <= Head(counted).x THEN Head(counted) ELSE best)

\* The decision of choose_move when the children map is iterated in order.
Decision(store, game, order) ==
    LET current_node == store[game]
        counted == [k \in 1..Len(order) |->
                       [m |-> order[k],
                        x |-> attempts(store[current_node.children[order[k]]], store)]]
    IN  IF counted = << >> THEN None
        ELSE Some(MaxByAttempts(Tail(counted), Head(counted)).m)

\* Decisions that take any known child, whatever its attempts.
DecisionsAnyChild(store, game) == {Some(m) : m \in DOMAIN store[game].children}

\* The decisions choose_move may come to: one for each order in which the
\* children map may be iterated.
Decisions(store, game) ==
    {Decision(store, game, order) : order \in Enumerations(DOMAIN store[game].children)}

\* The end of choose_move: the decision, which progress_one_turn plays.
Decide ==
    /\ pc = "choose" /\ current_turn = player /\ i = Iterations
    /\ IF game_state \notin DOMAIN explored_states THEN Panic("Bleh")
       ELSE IF \E m \in DOMAIN explored_states[game_state].children :
                  explored_states[game_state].children[m] \notin DOMAIN explored_states
         THEN Panic("called Option::unwrap() on a None value")
       ELSE IF Dangles(explored_states[game_state], explored_states)
         THEN Panic("Dangling pointer")
       ELSE \E decision \in Decisions(explored_states, game_state) :
              IF ~IsSome(decision) THEN Panic("called Option::unwrap() on a None value")
              ELSE IF ~is_legal(game_state, Unwrap(decision), current_turn)
                THEN Panic("Move not legal")
              ELSE /\ game_state' = update(game_state, Unwrap(decision))
                   /\ chosen_move' = decision
                   /\ pc' = "inform"
                   /\ i' = 0
                   /\ UNCHANGED << mcts, current_turn, conclusion, state_to_explore,
                                   state, random_player, panic, recorded >>

\* The turn of the other player, a RandomPlayer.
RandomPlayerMove ==
    /\ pc = "choose" /\ current_turn # player
    /\ LET legal == all_legal_moves(game_state, current_turn)
       IN  IF legal = << >> THEN Panic("There were no legal moves")
           ELSE \E k \in 1..Len(legal) :
                   /\ game_state' = update(game_state, legal[k])
                   /\ chosen_move' = Some(legal[k])
                   /\ pc' = "inform"
                   /\ UNCHANGED << mcts, current_turn, conclusion, locals, panic, recorded >>

\* inform_of_move_played(new_state, game_move), and the end of
\* progress_one_turn.
InformOfMovePlayed ==
    /\ pc = "inform"
    /\ LET r == pruning(explored_states, last_turn, Unwrap(chosen_move))
           next_player == other(current_turn)
           concl == try_conclude(game_state, next_player)
       IN  IF r.panic # "" THEN Panic(r.panic)
           ELSE /\ last_turn' = Some(game_state)
                /\ explored_states' = r.store
                /\ chosen_move' = None
                /\ IF IsSome(concl)
                     THEN /\ conclusion' = concl
                          /\ pc' = "done"
                          /\ UNCHANGED current_turn
                     ELSE /\ current_turn' = next_player
                          /\ pc' = "choose"
                          /\ UNCHANGED conclusion
                /\ UNCHANGED << player, c, game_state, locals, panic, recorded >>

Next ==
    \/ SelectionAndExpansion
    \/ RolloutStep
    \/ RolloutRecord
    \/ Decide
    \/ RandomPlayerMove
    \/ InformOfMovePlayed

Spec == Init /\ [][Next]_vars

\* The steps of choose_move that run selection_and_expansion or take the
\* decision are possible exactly when OwnTurn holds, and each changes pc.
OwnTurn == pc = "choose" /\ current_turn = player

\* The program is sequential: while it has a step to take, it takes one.
\* The weak fairness of SelectionAndExpansion \/ Decide is written out by
\* the definition of WF, with OwnTurn for what the steps are ENABLED by.
FairSpec ==
    /\ Spec
    /\ WF_vars(RolloutStep)
    /\ WF_vars(RolloutRecord)
    /\ WF_vars(RandomPlayerMove)
    /\ WF_vars(InformOfMovePlayed)
    /\ ([]<>~OwnTurn \/ []<><<pc' # pc>>_vars)

(***************************************************************************)
(* One long game of the program: the engine is player Two with c = 0.0 on  *)
(* a board with seven cells empty, and the samples of the RandomPlayers    *)
(* are fixed (the rollouts take the middle one of the legal moves, the     *)
(* other player the last one), so every behaviour of LongSpec is a         *)
(* behaviour of the program started on LongBoard.                          *)
(***************************************************************************)
LongBoard ==
    << "X", "O", "_",
       "_", "_", "_",
       "_", "_", "_" >>

LongInit ==
    /\ explored_states = EmptyMap
    /\ last_turn = None
    /\ player = "Two"
    /\ c = "0.0"
    /\ current_turn = "One"
    /\ game_state = LongBoard
    /\ conclusion = None
    /\ chosen_move = None
    /\ pc = "choose"
    /\ i = 0
    /\ state_to_explore = None
    /\ state = None
    /\ random_player = "One"
    /\ panic = ""
    /\ recorded = 0

\* RolloutStep when random_sample returns the middle one of the moves.
RolloutStepMiddle ==
    /\ RolloutStep
    /\ LET legal == all_legal_moves(Unwrap(state), random_player)
       IN  \/ pc' = "panic"
           \/ state' = Some(update(Unwrap(state), legal[(Len(legal) \div 2) + 1]))

\* RandomPlayerMove when random_sample returns the last one of the moves.
RandomPlayerMoveLast ==
    /\ RandomPlayerMove
    /\ LET legal == all_legal_moves(game_state, current_turn)
       IN  \/ pc' = "panic"
           \/ chosen_move' = Some(legal[Len(legal)])

LongNext ==
    \/ SelectionAndExpansion
    \/ RolloutStepMiddle
    \/ RolloutRecord
    \/ Decide
    \/ RandomPlayerMoveLast
    \/ InformOfMovePlayed

LongSpec == LongInit /\ [][LongNext]_vars

(***************************************************************************)
(* Properties                                                              *)
(***************************************************************************)
Stored == DOMAIN explored_states

\* The position before the move just played.
PreMove == [game_state EXCEPT ![Unwrap(chosen_move).cell] = "_"]

\* At least two plies have been played, so a pruning has removed a node.
TwoPliesPlayed == IsSome(last_turn) /\ count(Unwrap(last_turn), "O") >= 4

\* C1 - Edge mutuality: after every completed selection_and_expansion,
\* pruning and remove_tree, for all stored nodes A, B and every move m,
\* A.children[m] = B if and only if B.parents[m] = A.
C1_EdgeMutuality ==
    \A A \in Stored, B \in Stored, m \in Moves :
        (m \in DOMAIN explored_states[A].children /\ explored_states[A].children[m] = B)
        <=> (m \in DOMAIN explored_states[B].parents /\ explored_states[B].parents[m] = A)

\* A pruning has run and the store still holds a node with two parents.
C1_Witness ==
    /\ TwoPliesPlayed
    /\ \E B \in Stored : Cardinality(DOMAIN explored_states[B].parents) >= 2

\* C2 - No dangling edges: every position that is a value of a stored
\* node's children or parents map is a key of the store, and no lookup
\* panics with "Dangling pointer".
C2_NoDanglingEdges ==
    /\ \A g \in Stored :
          /\ \A m \in DOMAIN explored_states[g].children :
                explored_states[g].children[m] \in Stored
          /\ \A m \in DOMAIN explored_states[g].parents :
                explored_states[g].parents[m] \in Stored
    /\ panic \notin {"Dangling pointer", "Dangling pointer!"}

\* inform_of_move_played has pruned, and nodes with edges are left.
C2_Witness ==
    /\ TwoPliesPlayed
    /\ pc \in {"choose", "done"}
    /\ Unwrap(last_turn) = game_state
    /\ \E g \in Stored : DOMAIN explored_states[g].children # {}

\* What the call of inform_of_move_played of this state does to the store.
Pruned == pruning(explored_states, last_turn, Unwrap(chosen_move)).store

\* The positions reachable from g by one or more children edges of store.
RECURSIVE Descendants(_, _)
Descendants(store, g) ==
    LET kids == {store[g].children[m] : m \in DOMAIN store[g].children}
    IN  kids \cup UNION {Descendants(store, k) : k \in kids \cap DOMAIN store}

\* The parents a node of store has in it.
ParentsOf(store, g) == {store[g].parents[m] : m \in DOMAIN store[g].parents}

\* C3 - After every call of inform_of_move_played(new_state, m), for every
\* ply of the game, the first one included, the position the game was in
\* immediately before m has no node in the store.
C3_PreMoveRemoved ==
    [][InformOfMovePlayed => PreMove \notin DOMAIN explored_states']_vars

C4_WitnessCascade ==
    /\ pc = "inform"
    /\ IsSome(last_turn) /\ Unwrap(last_turn) \in Stored
    /\ LET P == Unwrap(last_turn)
           node == explored_states[P]
           removed == Stored \ DOMAIN Pruned
       IN  \E o \in DOMAIN node.children \ {Unwrap(chosen_move)} :
              LET child == node.children[o]
              IN  /\ child \in removed
                  /\ \E x \in Descendants(explored_states, child) : x \in removed

\* C5 - Orphan closure: after every inform_of_move_played, no stored node
\* other than the node of the position reached by the move played has an
\* empty parents map.
C5_OrphanClosure ==
    [][InformOfMovePlayed
        => \A g \in DOMAIN explored_states' :
              g # game_state => DOMAIN explored_states'[g].parents # {}]_vars

\* The sum of the values of a map, as a naive walk makes it.
RECURSIVE Total(_)
Total(map) ==
    IF DOMAIN map = {} THEN 0
    ELSE LET k == CHOOSE x \in DOMAIN map : TRUE
         IN  map[k] + Total(Remove(map, k))

Children(store, g) == {store[g].children[m] : m \in DOMAIN store[g].children}

C7_PerspectiveAlternation ==
    \A g \in Stored :
        /\ wins(explored_states[g], explored_states)
             = Total([k \in Children(explored_states, g) |->
                         losses(explored_states[k], explored_states)])
        /\ losses(explored_states[g], explored_states)
             = Total([k \in Children(explored_states, g) |->
                         wins(explored_states[k], explored_states)])

\* The number of plies from position g down to position d.
Plies(g, d) == count(g, "_") - count(d, "_")

\* C7, amended - for every stored node N, wins(N) is the sum over the
\* distinct positions D reachable from N of local_losses(D) when D is an
\* odd number of plies below N and of local_wins(D) when it is an even
\* number; losses(N) likewise with wins and losses exchanged.
C7_Amended ==
    \A g \in Stored :
        /\ wins(explored_states[g], explored_states)
             = Total([d \in Descendants(explored_states, g) |->
                         IF Plies(g, d) % 2 = 1 THEN explored_states[d].local_losses
                                                ELSE explored_states[d].local_wins])
        /\ losses(explored_states[g], explored_states)
             = Total([d \in Descendants(explored_states, g) |->
                         IF Plies(g, d) % 2 = 1 THEN explored_states[d].local_wins
                                                ELSE explored_states[d].local_losses])

\* A node has a child and a grandchild whose rollouts were won and lost.
C7_Witness ==
    \E g \in Stored : \E k \in Children(explored_states, g) :
        \E d \in Children(explored_states, k) :
            /\ explored_states[k].local_losses > 0
            /\ explored_states[d].local_wins > 0
            /\ explored_states[d].local_wins # explored_states[d].local_losses
            /\ wins(explored_states[g], explored_states) > 0
            /\ losses(explored_states[g], explored_states) > 0

\* The calls of choose_move_by_uct_value that the selection_and_expansion
\* of this state makes: the passes of its loop that do not return a leaf.
SelectionCalls ==
    IF pc = "choose" /\ current_turn = player /\ i < Iterations
      THEN LET passes == selection_and_expansion(explored_states, game_state, player, c).passes
           IN  {passes[k] : k \in {j \in 1..Len(passes) :
                   ~(is_leaf(passes[j].store[passes[j].state])
                       /\ passes[j].store[passes[j].state].local_attempts = 0)}}
      ELSE {}

CallNode(call) == call.store[call.state]
CallLegal(call) == all_legal_moves(call.state, CallNode(call).player)
CallResult(call) == choose_move_by_uct_value(CallNode(call), c, call.state, call.store)

\* The indices of the legal moves of a call whose score is the maximum.
Maximal(call) ==
    LET legal == CallLegal(call)
        score(k) == ScoreOfMove(CallNode(call), legal[k],
                                attempts(CallNode(call), call.store), c, call.store).score
    IN  {k \in 1..Len(legal) : \A j \in 1..Len(legal) : ScoreLeq(score(j), score(k))}

\* C8 - Untried-move priority: at a node with a legal move that has no
\* known child, selection chooses a move with no known child.
C8_UntriedPriority ==
    \A call \in SelectionCalls :
        (/\ CallResult(call).panic = ""
         /\ \E k \in 1..Len(CallLegal(call)) :
               CallLegal(call)[k] \notin DOMAIN CallNode(call).children)
        => /\ IsSome(CallResult(call).move)
           /\ Unwrap(CallResult(call).move) \notin DOMAIN CallNode(call).children

\* C9 - Selection tie-break: when several legal moves share the maximum
\* score, the move chosen is the first of them in the order of
\* all_legal_moves.
C9_FirstMaximum ==
    \A call \in SelectionCalls :
        (CallResult(call).panic = "" /\ CallLegal(call) # << >>)
        => \E k \in Maximal(call) :
              /\ \A j \in Maximal(call) : k <= j
              /\ CallResult(call).move = Some(CallLegal(call)[k])

\* C9, amended - when several legal moves share the maximum score, the
\* move chosen is the last of them in the order of all_legal_moves.
C9_LastMaximum ==
    \A call \in SelectionCalls :
        (CallResult(call).panic = "" /\ CallLegal(call) # << >>)
        => \E k \in Maximal(call) :
              /\ \A j \in Maximal(call) : j <= k
              /\ CallResult(call).move = Some(CallLegal(call)[k])

\* selection_and_expansion is about to choose among several moves of the
\* maximum score, one of them the score of a known child.
C9_Witness ==
    \E call \in SelectionCalls :
        /\ Cardinality(Maximal(call)) >= 2
        /\ \E k \in Maximal(call) : CallLegal(call)[k] \in DOMAIN CallNode(call).children

\* C10 - Transposition collapse: when selection_and_expansion reaches a
\* position from a predecessor, the one node of that position has the
\* incoming move mapped to that predecessor in its parents map, next to the
\* incoming edges it had before.
C10_TranspositionCollapse ==
    [][ (SelectionAndExpansion /\ pc' = "rollout")
        => LET passes == selection_and_expansion(explored_states, game_state, player, c).passes
           IN  /\ \A k \in 1..Len(passes) :
                     IsSome(passes[k].parent)
                     => LET edge == Unwrap(passes[k].parent)
                            B == passes[k].state
                        IN  /\ B \in DOMAIN explored_states'
                            /\ edge.move \in DOMAIN explored_states'[B].parents
                            /\ explored_states'[B].parents[edge.move] = edge.state
               /\ \A g \in Stored : \A m \in DOMAIN explored_states[g].parents :
                     /\ g \in DOMAIN explored_states'
                     /\ m \in DOMAIN explored_states'[g].parents
                     /\ explored_states'[g].parents[m] = explored_states[g].parents[m]
      ]_vars

\* selection_and_expansion has returned a position that it has reached
\* from two predecessors.
C10_Witness ==
    /\ pc = "rollout"
    /\ Cardinality(ParentsOf(explored_states, Unwrap(state_to_explore))) >= 2

\* choose_move returns its decision in this step.
Decided == pc = "choose" /\ current_turn = player /\ pc' = "inform"

\* The aggregate attempts of the child of the node of g by move m.
ChildAttempts(g, m) ==
    attempts(explored_states[explored_states[g].children[m]], explored_states)

\* The last position in order of a child with the most attempts.
LastMaximal(g, order) ==
    CHOOSE k \in 1..Len(order) :
        /\ \A o \in 1..Len(order) : ChildAttempts(g, order[o]) <= ChildAttempts(g, order[k])
        /\ \A o \in (k + 1)..Len(order) :
              ChildAttempts(g, order[o]) < ChildAttempts(g, order[k])

\* C11 - Decision policy: the move choose_move(G) returns is a key of the
\* children map of G's node, its child has the maximum attempts among the
\* known children of G, and among children with the same maximum it is the
\* one the enumeration order of children fixes (the last of them).
C11_DecisionPolicy ==
    [][Decided =>
         LET m == Unwrap(chosen_move')
             known == DOMAIN explored_states[game_state].children
         IN  /\ game_state \in Stored
             /\ m \in known
             /\ \A o \in known : ChildAttempts(game_state, o) <= ChildAttempts(game_state, m)
             /\ \E order \in Enumerations(known) :
                   m = order[LastMaximal(game_state, order)]
             /\ explored_states' = explored_states]_vars

\* choose_move has decided between two children with the same, maximum,
\* attempts, which are not zero.
C11_Witness ==
    /\ pc = "inform" /\ current_turn = player /\ PreMove \in Stored
    /\ LET known == DOMAIN explored_states[PreMove].children
           m == Unwrap(chosen_move)
       IN  /\ m \in known
           /\ ChildAttempts(PreMove, m) > 0
           /\ \E o \in known \ {m} : ChildAttempts(PreMove, o) = ChildAttempts(PreMove, m)

\* The positions next to the game: the current one, the one before it and
\* the ones a legal move leads to.
Nearby ==
    {game_state}
    \cup (IF IsSome(last_turn) THEN {Unwrap(last_turn)} ELSE {})
    \cup {update(game_state, Move(k, piece)) :
            k \in {x \in Cells : game_state[x] = "_"}, piece \in {"X", "O"}}

\* C12 - Pruning idempotence: a second pruning(P, m) with the same P and
\* m, with no selection or expansion in between, leaves the store exactly
\* as the first call left it; pruning a position that has no node in the
\* store changes nothing.
C12_PruningIdempotence ==
    [][/\ (pc = "inform" /\ pc' # "panic") =>
             LET m == Unwrap(chosen_move)
                 first == pruning(explored_states, last_turn, m)
             IN  /\ explored_states' = first.store
                 /\ pruning(first.store, last_turn, m) = Ret(first.store, "")
       /\ \A g \in Nearby \ Stored, m \in Moves :
             pruning(explored_states, Some(g), m) = Ret(explored_states, "")]_vars

\* inform_of_move_played is about to prune a stored position, and the
\* pruning removes its node and orphans of it.
C12_Witness ==
    /\ pc = "inform" /\ IsSome(last_turn) /\ Unwrap(last_turn) \in Stored
    /\ Cardinality(DOMAIN Pruned) + 1 < Cardinality(Stored)

\* The iterations of choose_move have ended and the root has no known child.
NoKnownChild ==
    /\ pc = "choose" /\ current_turn = player /\ i = Iterations
    /\ game_state \in Stored
    /\ DOMAIN explored_states[game_state].children = {}

\* C13 - Exhausted budget: when the iterations of choose_move end with no
\* known child under the root position, choose_move does not end in a
\* panic, the outcome of a fatal internal-invariant failure, but in an
\* outcome the caller can recover from.
C13_ExhaustedBudget == [][NoKnownChild => pc' # "panic"]_vars

\* C14 - Rollout frame: in each iteration of choose_move, once selection
\* has returned the leaf L, the rollout changes in the store only the local
\* counters of L's node, local_attempts of L grows by exactly 1, and the
\* set of nodes, every children and parents map and the local counters of
\* every other node are unchanged.
C14_RolloutFrame ==
    [][(pc = "rollout" /\ pc' # "panic") =>
         LET L == Unwrap(state_to_explore)
         IN  /\ DOMAIN explored_states' = Stored
             /\ \A g \in Stored \ {L} : explored_states'[g] = explored_states[g]
             /\ explored_states'[L].children = explored_states[L].children
             /\ explored_states'[L].parents = explored_states[L].parents
             /\ explored_states'[L].player = explored_states[L].player
             /\ pc' = "rollout" => explored_states' = explored_states
             /\ pc' = "choose" =>
                   explored_states'[L].local_attempts = explored_states[L].local_attempts + 1]_vars

\* A rollout that has played moves from a leaf with a parent has reached a
\* conclusion, which the next step records.
C14_Witness ==
    /\ pc = "rollout"
    /\ Unwrap(state) # Unwrap(state_to_explore)
    /\ IsSome(try_conclude(Unwrap(state), random_player))
    /\ DOMAIN explored_states[Unwrap(state_to_explore)].parents # {}

\* The moves all_legal_moves enumerates.
Enumerated(b, p) == {all_legal_moves(b, p)[k] : k \in 1..Len(all_legal_moves(b, p))}

\* The passes of the loop of the selection_and_expansion of this state.
SelectionPasses ==
    IF pc = "choose" /\ current_turn = player /\ i < Iterations
      THEN selection_and_expansion(explored_states, game_state, player, c).passes
      ELSE << >>

\* current_player in pass k of the loop.
Tracked(k) == IF k % 2 = 1 THEN player ELSE other(player)

\* C15 - Only legal moves are applied: every move the engine applies with
\* update, in the selection descent, in the rollout, and the move
\* choose_move returns, was enumerated by all_legal_moves for that position
\* and for the player it is applied with (the node's stored player is the
\* player tracked by the descent), and no step of choose_move ends in
\* "Move not legal" or "There were no legal moves".
C15_OnlyLegalMoves ==
    [][/\ ((pc = "choose" /\ current_turn = player) \/ pc = "rollout") =>
             panic' \notin {"Move not legal", "There were no legal moves"}
       /\ \A k \in 1..Len(SelectionPasses) :
             LET pass == SelectionPasses[k]
             IN  /\ pass.store[pass.state].player = Tracked(k)
                 /\ IsSome(pass.chosen) =>
                       Unwrap(pass.chosen) \in Enumerated(pass.state, Tracked(k))
       /\ (pc = "rollout" /\ pc' = "rollout") =>
             \E m \in Enumerated(Unwrap(state), random_player) :
                 state' = Some(update(Unwrap(state), m))
       /\ Decided =>
             /\ Unwrap(chosen_move') \in Enumerated(game_state, player)
             /\ game_state' = update(game_state, Unwrap(chosen_move'))]_vars

\* After a move of the game, a selection_and_expansion descends two moves.
C15_Witness ==
    /\ IsSome(last_turn)
    /\ Len(SelectionPasses) >= 3

\* Player p has exactly one legal move at b, and it wins the game for p.
SoleWin(b, p) ==
    /\ Len(all_legal_moves(b, p)) = 1
    /\ try_conclude(update(b, all_legal_moves(b, p)[1]), other(p)) = Some(Win(p))

\* The first choose_move of a game, which starts from an empty store, is
\* on a position with a single move, which wins.
ForcedWin ==
    /\ last_turn = None /\ pc = "choose" /\ current_turn = player
    /\ SoleWin(game_state, player)

\* C16 - Single-move forced win: for a position with exactly one legal
\* move, which wins for the mover, and an empty store, after the first
\* simulation the root node has local_wins = local_attempts = 1, and
\* choose_move returns that move.
C16_ForcedWin ==
    [][/\ (ForcedWin /\ i = 0) => explored_states = EmptyMap
       /\ (ForcedWin /\ i = 1) =>
             /\ game_state \in Stored
             /\ explored_states[game_state].local_wins = 1
             /\ explored_states[game_state].local_attempts = 1
       /\ (ForcedWin /\ i = Iterations) =>
             /\ pc' = "inform"
             /\ chosen_move' = Some(all_legal_moves(game_state, player)[1])]_vars

\* choose_move has returned the move of a forced win.
C16_Witness ==
    /\ pc = "inform" /\ current_turn = player /\ last_turn = None
    /\ SoleWin(PreMove, player)
    /\ PreMove \in Stored /\ explored_states[PreMove].local_wins >= 1

\* selection_and_expansion returns in this step.
Selected == pc = "choose" /\ pc' = "rollout"

\* C17 - selection_and_expansion(G) returns a position that has a node in
\* the store and that either is a leaf (empty children map) with
\* local_attempts = 0, or has no legal move for the player to move there;
\* the lookup of the returned position in choose_move does not fail.
C17_SelectionResult ==
    [][/\ Selected =>
             LET L == Unwrap(state_to_explore')
             IN  /\ L \in DOMAIN explored_states'
                 /\ \/ /\ is_leaf(explored_states'[L])
                       /\ explored_states'[L].local_attempts = 0
                    \/ all_legal_moves(L, explored_states'[L].player) = << >>
       /\ panic' # "Dangling pointer!"]_vars

\* selection_and_expansion has descended to a position with no legal move
\* which has had a rollout before.
C17_Witness ==
    /\ pc = "rollout" /\ state = state_to_explore
    /\ LET L == Unwrap(state_to_explore)
       IN  /\ explored_states[L].local_attempts > 0
           /\ DOMAIN explored_states[L].parents # {}
           /\ all_legal_moves(L, explored_states[L].player) = << >>

\* The rollout is recorded in this step.
Recorded == pc = "rollout" /\ pc' = "choose"

\* What the step adds to the local counters of the node of g:
\* << local_wins, local_losses, local_attempts >>.
Added(g) ==
    << explored_states'[g].local_wins - explored_states[g].local_wins,
       explored_states'[g].local_losses - explored_states[g].local_losses,
       explored_states'[g].local_attempts - explored_states[g].local_attempts >>

\* C18 - Rollout outcome recording: a rollout from leaf L that ends in a
\* win for L's player to move adds 1 to local_wins and local_attempts of L,
\* a win for the other player adds 1 to local_losses and local_attempts, a
\* draw adds 1 to local_attempts only; and every stored node satisfies
\* local_wins + local_losses <= local_attempts.
C18_OutcomeRecording ==
    [][/\ Recorded =>
             LET L == Unwrap(state_to_explore)
                 mover == explored_states[L].player
                 concl == try_conclude(Unwrap(state), random_player)
             IN  /\ concl = Some(Win(mover)) => Added(L) = << 1, 0, 1 >>
                 /\ concl = Some(Win(other(mover))) => Added(L) = << 0, 1, 1 >>
                 /\ concl = Some(Draw) => Added(L) = << 0, 0, 1 >>
                 /\ concl \in {Some(Win(mover)), Some(Win(other(mover))), Some(Draw)}
       /\ \A g \in Stored :
             explored_states[g].local_wins + explored_states[g].local_losses
                <= explored_states[g].local_attempts]_vars

\* The store holds a node with a win, a node with a loss and a node with a
\* draw recorded.
C18_Witness ==
    /\ \E g \in Stored : explored_states[g].local_wins > 0
    /\ \E g \in Stored : explored_states[g].local_losses > 0
    /\ \E g \in Stored :
          /\ explored_states[g].local_attempts > 0
          /\ explored_states[g].local_wins + explored_states[g].local_losses = 0

\* map is a part of more: every entry of map is an entry of more.
SubMap(map, more) ==
    /\ DOMAIN map \subseteq DOMAIN more
    /\ \A k \in DOMAIN map : more[k] = map[k]

\* C19 - Node lifecycle: nodes leave the store only through pruning and
\* remove_tree: a choose_move call never removes a node or an edge and
\* creates at most one new node per iteration; pruning and remove_tree
\* never create a node or an edge nor change the local counters of a node
\* that survives.
C19_NodeLifecycle ==
    [][/\ pc # "inform" =>
             /\ Stored \subseteq DOMAIN explored_states'
             /\ \A g \in Stored :
                   /\ SubMap(explored_states[g].children, explored_states'[g].children)
                   /\ SubMap(explored_states[g].parents, explored_states'[g].parents)
             /\ Cardinality(DOMAIN explored_states' \ Stored) <= 1
             /\ ~Selected => DOMAIN explored_states' = Stored
       /\ pc = "inform" =>
             /\ DOMAIN explored_states' \subseteq Stored
             /\ \A g \in DOMAIN explored_states' :
                   /\ SubMap(explored_states'[g].children, explored_states[g].children)
                   /\ SubMap(explored_states'[g].parents, explored_states[g].parents)
                   /\ explored_states'[g].player = explored_states[g].player
                   /\ explored_states'[g].local_attempts = explored_states[g].local_attempts
                   /\ explored_states'[g].local_wins = explored_states[g].local_wins
                   /\ explored_states'[g].local_losses = explored_states[g].local_losses]_vars

\* In the choose_move call after a pruning, selection_and_expansion has
\* descended to a node that survived it with rollouts recorded.
C19_Witness ==
    /\ pc = "rollout" /\ TwoPliesPlayed /\ Unwrap(last_turn) = game_state
    /\ Unwrap(state_to_explore) # game_state
    /\ explored_states[Unwrap(state_to_explore)].local_attempts > 1
    /\ DOMAIN explored_states[game_state].children # {}

\* choose_move has been called and has not begun its iterations.
ChooseCalled == pc = "choose" /\ current_turn = player /\ i = 0

\* choose_move has returned a move to progress_one_turn.
ChooseReturned == pc = "inform" /\ current_turn = player

\* The number of empty cells of a board.
Empty(b) == count(b, "_")

C21_ScoresComparable ==
    /\ \A call \in SelectionCalls :
          \A m \in DOMAIN CallNode(call).children :
             LET child == call.store[CallNode(call).children[m]]
             IN  (m \in Enumerated(call.state, CallNode(call).player)
                     /\ attempts(child, call.store) > 0) =>
                   /\ attempts(CallNode(call), call.store)
                         >= child.local_attempts + attempts(child, call.store)
                   /\ child.local_attempts + attempts(child, call.store) >= 1
    /\ panic # "x is NAN"

\* The players who have a legal move at a board: the player to move, or
\* nobody when no cell is empty.
ToMove(b) == {p \in PlayerEnum : all_legal_moves(b, p) # << >>}

\* C22 - Player alternation on edges: every stored node's player field is
\* the player to move at that position, for every stored edge A --m--> B
\* the player of B is the other player than the player of A, and a node
\* reached again through a transposition is reached with the player it was
\* created with.
C22_PlayerAlternation ==
    /\ \A A \in Stored :
          /\ ToMove(A) \subseteq {explored_states[A].player}
          /\ \A m \in DOMAIN explored_states[A].children :
                LET B == explored_states[A].children[m]
                IN  B \in Stored =>
                      /\ explored_states[B].player # explored_states[A].player
                      /\ explored_states[B].player \in PlayerEnum
    /\ \A k \in 1..Len(SelectionPasses) :
          LET pass == SelectionPasses[k]
          IN  /\ pass.store[pass.state].player = Tracked(k)
              /\ pass.state \in Stored =>
                    explored_states[pass.state].player = Tracked(k)

\* selection_and_expansion is about to reach a node it has created before
\* by a move from a position that is not yet a parent of it.
C22_Witness ==
    \E k \in 2..Len(SelectionPasses) :
        LET pass == SelectionPasses[k]
        IN  /\ pass.state \in Stored
            /\ Unwrap(pass.parent).state
                  \notin ParentsOf(explored_states, pass.state)

\* The largest value of a u8.
U8Max == U8 - 1

\* C23 - Counter range: the local counters and the aggregate attempts,
\* wins and losses of any node never exceed the number of rollouts this
\* player has recorded since it was created (each rollout is counted at
\* most once in an aggregate, also when its node is reachable by several
\* paths), so the u8 counters and sums do not overflow while that number is
\* at most 255.
C23_CounterRange ==
    \A g \in Stored :
        LET node == explored_states[g]
            sum_attempts == Total(tree_attempts(node, explored_states).map)
            sum_wins == Total(tree_wins(node, explored_states).map)
            sum_losses == Total(tree_losses(node, explored_states).map)
        IN  /\ node.local_attempts <= recorded
            /\ node.local_wins <= recorded
            /\ node.local_losses <= recorded
            /\ sum_attempts <= recorded
            /\ sum_wins <= recorded
            /\ sum_losses <= recorded
            /\ recorded <= U8Max =>
                  /\ attempts(node, explored_states) = sum_attempts
                  /\ wins(node, explored_states) = sum_wins
                  /\ losses(node, explored_states) = sum_losses
                  /\ sum_attempts <= U8Max /\ sum_wins <= U8Max /\ sum_losses <= U8Max

\* Every rollout recorded so far, ninety or more, is counted once at the
\* root, whose descendants include a node with two parents that has a
\* rollout of its own.
C23_Witness ==
    /\ recorded >= 90
    /\ game_state \in Stored
    /\ explored_states[game_state].local_attempts
          + attempts(explored_states[game_state], explored_states) = recorded
    /\ \E d \in Descendants(explored_states, game_state) :
          /\ Cardinality(ParentsOf(explored_states, d)) >= 2
          /\ explored_states[d].local_attempts > 0

=============================================================================
